---- MODULE Spec2Model ----
(***************************************************************************)
(* Model of snorkel/mtl/loggers/checkpointer.py: the Checkpointer class,   *)
(* its construction from a config, the runway gate, best-metric tracking,  *)
(* the best-model files, clear() and load_best_model().                    *)
(*                                                                         *)
(* Python strings are sequences of one-character strings, so that          *)
(* str.split(":") and str.replace("/", "_") are computed character by      *)
(* character.  A dict is a function whose DOMAIN is its key set.  The      *)
(* checkpoint directory is the function `files` from path to payload; a    *)
(* path is <<prefix, key>> for f"{checkpoint_dir}/{prefix}{key}.pth".      *)
(***************************************************************************)
EXTENDS Integers, Sequences, FiniteSets, TLC

VARIABLES
    phase,                     \* "new": before __init__; "ready": constructed; "failed": __init__ raised
    config,                    \* the config handed to __init__
    checkpoint_clear,          \* self.checkpoint_clear
    checkpoint_runway,         \* self.checkpoint_runway
    checkpoint_condition_met,  \* self.checkpoint_condition_met (the runway gate)
    checkpoint_metric,         \* self.checkpoint_metric: name -> mode, one key
    checkpoint_task_metrics,   \* self.checkpoint_task_metrics: name -> mode
    checkpoint_freq,           \* self.checkpoint_freq
    best_metric_dict,          \* self.best_metric_dict: name -> best value
    dir_exists,                \* os.path.exists(checkpoint_dir)
    files,                     \* the *.pth files of checkpoint_dir: path -> payload
    notices,                   \* number of "checkpoint_runway condition has been met" log lines
    last,                      \* the call just made: its arguments, return value, files touched, exception
    supplied,                  \* history: name -> values passed to checkpoint at or after the runway
    best_payload,              \* history: model payload of the latest checkpoint that was newly best for the primary metric
    calls                      \* number of checkpoint / is_new_best calls made

vars == <<phase, config, checkpoint_clear, checkpoint_runway, checkpoint_condition_met,
          checkpoint_metric, checkpoint_task_metrics, checkpoint_freq, best_metric_dict,
          dir_exists, files, notices, last, supplied, best_payload, calls>>

manager == <<checkpoint_clear, checkpoint_runway, checkpoint_metric,
             checkpoint_task_metrics, checkpoint_freq>>

(***************************************************************************)
(* Bounds and input sets.                                                  *)
(***************************************************************************)
MaxCalls == 2

Iterations == {0, 1}
Runways == {0, 1}
MetricValues == {1, 2}
EvaluationFreqs == {0, 1}
CheckpointFactors == {-1, 1}

\* Metric names and modes, as character sequences.
N_ab == <<"a", "/", "b">>
N_a_b == <<"a", "_", "b">>
N_c == <<"c">>
MetricNames == {N_ab, N_a_b, N_c}

MIN == <<"m", "i", "n">>
MAX == <<"m", "a", "x">>
AVG == <<"a", "v", "g">>

Descriptor(name, mode) == name \o <<":">> \o mode

\* checkpoint_metric descriptors: well-formed, no colon, bad mode, two colons.
PrimaryDescriptors ==
    { Descriptor(N_ab, MIN),
      N_c, Descriptor(N_c, AVG), Descriptor(N_c, MAX) \o <<":">> \o MIN }

\* checkpoint_task_metrics: None or a list of descriptors.
None == [none |-> TRUE, list |-> <<>>]
Some(l) == [none |-> FALSE, list |-> l]
TaskMetricLists ==
    { None,
      Some(<< Descriptor(N_a_b, MAX) >>),
      Some(<< Descriptor(N_ab, MAX), Descriptor(N_c, MAX) >>),
      Some(<< Descriptor(N_c, MIN), N_a_b >>),
      Some(<< Descriptor(N_c, AVG) >>) }

Configs ==
    [ checkpoint_metric : PrimaryDescriptors,
      checkpoint_task_metrics : TaskMetricLists,
      checkpoint_clear : BOOLEAN,
      checkpoint_runway : Runways,
      evaluation_freq : EvaluationFreqs,
      checkpoint_factor : CheckpointFactors ]

\* The models handed to checkpoint and load_best_model: name and parameters.
Models == { [name |-> "A", module_pool |-> 1], [name |-> "B", module_pool |-> 2] }

\* metric_dict arguments of checkpoint: no metric, one metric, or every metric
\* reported with the same value.
MetricDicts ==
    UNION { [S -> {v}] : S \in { T \in SUBSET MetricNames : Cardinality(T) \in {0, 1, Cardinality(MetricNames)} },
                         v \in MetricValues }

\* metric_dict arguments of a direct is_new_best call: every dict over the names.
AllMetricDicts == UNION { [S -> MetricValues] : S \in SUBSET MetricNames }

EmptyDict == <<>>

(***************************************************************************)
(* Pure helpers.                                                           *)
(***************************************************************************)
\* str.split(sep): the parts between the separators, in order.
RECURSIVE split(_, _)
split(s, sep) ==
    IF s = <<>> THEN << <<>> >>
    ELSE LET rest == split(Tail(s), sep)
         IN  IF Head(s) = sep
             THEN << <<>> >> \o rest
             ELSE << <<Head(s)>> \o Head(rest) >> \o Tail(rest)

\* str.replace(old, new) for one-character old and new.
replace(s, old, new) == [i \in 1..Len(s) |-> IF s[i] = old THEN new ELSE s[i]]

\* dict[key] = value
put(d, key, value) == [k \in DOMAIN d \cup {key} |-> IF k = key THEN value ELSE d[k]]

\* dict.update(other) with the keys already present kept as they are (setdefault)
update_keeping_existing(d, other) ==
    [k \in DOMAIN d \cup DOMAIN other |-> IF k \in DOMAIN d THEN d[k] ELSE other[k]]

\* dict.update(other)
update(d, other) == [k \in DOMAIN d \cup DOMAIN other |-> IF k \in DOMAIN other THEN other[k] ELSE d[k]]

\* line 170 with a missing length check: the first two parts are taken, the rest dropped
unpacks_first_two(parts) == Len(parts) >= 2

\* line 170: `metric, mode = parts` unpacks only a list of exactly two parts
unpacks(parts) == Len(parts) = 2

\* line 176: mode in ["min", "max"]
valid_mode(mode) == mode \in {MIN, MAX}

\* _make_metric_map: [ok |-> FALSE] when a ValueError is raised, else the map.
RECURSIVE make_metric_map_loop(_, _)
make_metric_map_loop(metric_mode_list, metric_mode_map) ==
    IF metric_mode_list = <<>> THEN [ok |-> TRUE, map |-> metric_mode_map]
    ELSE LET parts == split(Head(metric_mode_list), ":")
         IN  IF ~unpacks(parts) THEN [ok |-> FALSE, map |-> EmptyDict]
             ELSE IF ~valid_mode(parts[2]) THEN [ok |-> FALSE, map |-> EmptyDict]
             ELSE make_metric_map_loop(Tail(metric_mode_list),
                                       put(metric_mode_map, parts[1], parts[2]))

_make_metric_map(metric_mode_list) ==
    IF metric_mode_list.none THEN [ok |-> TRUE, map |-> EmptyDict]
    ELSE make_metric_map_loop(metric_mode_list.list, EmptyDict)

\* line 75 without the iteration: one file name for every snapshot
checkpoint_path_fixed(iteration) == <<"checkpoint_", <<>> >>

\* f"{checkpoint_dir}/checkpoint_{iteration}.pth"
checkpoint_path(iteration) == <<"checkpoint_", <<iteration>> >>

\* f"{checkpoint_dir}/best_model_{metric.replace('/', '_')}.pth"
best_model_path(metric) == <<"best_model_", replace(metric, "/", "_")>>

\* glob.glob(f"{checkpoint_dir}/checkpoint_*.pth")
glob_checkpoints(fs) == { p \in DOMAIN fs : p[1] = "checkpoint_" }

\* line 141 storing the manager's record instead of the call's metric_dict
collect_state_dict_with_record(iteration, model, metric_dict) ==
    [ iteration |-> iteration,
      model |-> [name |-> model.name, module_pool |-> model.module_pool],
      metric_dict |-> best_metric_dict ]

\* collect_state_dict
collect_state_dict(iteration, model, metric_dict) ==
    [ iteration |-> iteration,
      model |-> [name |-> model.name, module_pool |-> model.module_pool],
      metric_dict |-> metric_dict ]

(***************************************************************************)
(* Checkpointer.is_new_best                                                *)
(***************************************************************************)
\* line 102 left out: every metric of metric_dict is taken as tracked
is_tracked_always(metric) == TRUE

\* line 102: the metric is one of the tracked metrics
is_tracked(metric) == metric \in DOMAIN checkpoint_task_metrics

\* lines 107-118 with the mode ignored: larger is always better
improves_ignoring_mode(metric, value, record) == value > record[metric]

\* lines 107-118 with >= and <=: a tie counts as an improvement
improves_or_ties(metric, value, record) ==
    \/ checkpoint_task_metrics[metric] = MAX /\ value >= record[metric]
    \/ checkpoint_task_metrics[metric] = MIN /\ value <= record[metric]

\* lines 107-118: the value beats the recorded best, strictly, per the metric's mode
improves(metric, value, record) ==
    \/ checkpoint_task_metrics[metric] = MAX /\ value > record[metric]
    \/ checkpoint_task_metrics[metric] = MIN /\ value < record[metric]

\* The loop of lines 101-118 over the keys still to visit; `record` is
\* self.best_metric_dict as updated so far, `best_metric` the set built so far.
RECURSIVE is_new_best_loop(_, _, _, _)
is_new_best_loop(keys, metric_dict, record, best_metric) ==
    IF keys = {} THEN [best_metric |-> best_metric, best_metric_dict |-> record]
    ELSE LET metric == CHOOSE k \in keys : TRUE
             rest == keys \ {metric}
         IN  IF ~is_tracked(metric)
             THEN is_new_best_loop(rest, metric_dict, record, best_metric)
             ELSE IF metric \notin DOMAIN record
             THEN is_new_best_loop(rest, metric_dict,
                                   put(record, metric, metric_dict[metric]),
                                   best_metric \cup {metric})
             ELSE IF improves(metric, metric_dict[metric], record)
             THEN is_new_best_loop(rest, metric_dict,
                                   put(record, metric, metric_dict[metric]),
                                   best_metric \cup {metric})
             ELSE is_new_best_loop(rest, metric_dict, record, best_metric)

\* The returned set and self.best_metric_dict after the call.
is_new_best_result(metric_dict) ==
    is_new_best_loop(DOMAIN metric_dict, metric_dict, best_metric_dict, {})

(***************************************************************************)
(* The record of a call, and the history variables.                        *)
(***************************************************************************)
NoModel == [name |-> "", module_pool |-> 0]

\* What a call that raised would have left had it completed.
NotInterrupted == [files |-> EmptyDict, best_metric_dict |-> EmptyDict]

\* `failed` holds the path whose write, copy or removal raised; `completed` is
\* history: the files and the record the call would have left had nothing raised.
NoCall ==
    [ op |-> "none", iteration |-> 0, model |-> NoModel, metric_dict |-> EmptyDict,
      new_best |-> {}, returned |-> NoModel, written |-> {}, removed |-> {},
      read |-> {}, error |-> "none", failed |-> {}, completed |-> NotInterrupted ]

Call(op) == [NoCall EXCEPT !.op = op]

\* The values a checkpoint call at or after the runway supplies, added to the history.
Supply(iteration, metric_dict) ==
    [ m \in MetricNames |->
        IF iteration >= checkpoint_runway /\ m \in DOMAIN metric_dict
        THEN supplied[m] \cup {metric_dict[m]}
        ELSE supplied[m] ]

\* m is tracked, supplied, and has no record or a strictly better value than the record.
NewlyBest(m, metric_dict, record) ==
    /\ m \in DOMAIN checkpoint_task_metrics
    /\ m \in DOMAIN metric_dict
    /\ \/ m \notin DOMAIN record
       \/ checkpoint_task_metrics[m] = MAX /\ metric_dict[m] > record[m]
       \/ checkpoint_task_metrics[m] = MIN /\ metric_dict[m] < record[m]

\* list(self.checkpoint_metric.keys())[0]
primary_metric == CHOOSE m \in DOMAIN checkpoint_metric : TRUE

(***************************************************************************)
(* Checkpointer.__init__                                                   *)
(***************************************************************************)
NoConfig ==
    [ checkpoint_metric |-> <<>>, checkpoint_task_metrics |-> None,
      checkpoint_clear |-> FALSE, checkpoint_runway |-> 0,
      evaluation_freq |-> 0, checkpoint_factor |-> 0 ]

Init ==
    /\ phase = "new"
    /\ config = NoConfig
    /\ checkpoint_clear = FALSE
    /\ checkpoint_runway = 0
    /\ checkpoint_condition_met = FALSE
    /\ checkpoint_metric = EmptyDict
    /\ checkpoint_task_metrics = EmptyDict
    /\ checkpoint_freq = 0
    /\ best_metric_dict = EmptyDict
    /\ dir_exists = FALSE
    /\ files = EmptyDict
    /\ notices = 0
    /\ last = NoCall
    /\ supplied = [m \in MetricNames |-> {}]
    /\ best_payload = [set |-> FALSE, model |-> NoModel]
    /\ calls = 0

\* line 44 with `<` for `<=`: a frequency of zero is accepted
invalid_freq_negative_only(freq) == freq < 0

\* line 44: the frequency is rejected
invalid_freq(freq) == freq <= 0

\* __init__ raised ValueError: no Checkpointer exists.
init_raises(cfg, made_dir) ==
    /\ phase' = "failed"
    /\ dir_exists' = made_dir
    /\ last' = [Call("__init__") EXCEPT !.error = "ValueError"]
    /\ UNCHANGED <<manager, checkpoint_condition_met, best_metric_dict>>

init(cfg) ==
    /\ phase = "new"
    /\ config' = cfg
    /\ LET primary == _make_metric_map(Some(<<cfg.checkpoint_metric>>))
           task == _make_metric_map(cfg.checkpoint_task_metrics)
           freq == cfg.evaluation_freq * cfg.checkpoint_factor
       IN  IF ~primary.ok THEN init_raises(cfg, dir_exists)
           ELSE IF ~task.ok THEN init_raises(cfg, dir_exists)
           ELSE IF invalid_freq(freq) THEN init_raises(cfg, TRUE)
           ELSE /\ phase' = "ready"
                /\ checkpoint_clear' = cfg.checkpoint_clear
                /\ checkpoint_runway' = cfg.checkpoint_runway
                /\ checkpoint_condition_met' = FALSE
                /\ checkpoint_metric' = primary.map
                /\ checkpoint_task_metrics' = update(task.map, primary.map)
                /\ checkpoint_freq' = freq
                /\ best_metric_dict' = EmptyDict
                /\ dir_exists' = TRUE
                /\ last' = Call("__init__")
    /\ UNCHANGED <<files, notices, supplied, best_payload, calls>>

(***************************************************************************)
(* Checkpointer.checkpoint                                                 *)
(***************************************************************************)
\* line 64 applied only while the gate is closed
below_runway_while_closed(iteration) ==
    ~checkpoint_condition_met /\ iteration < checkpoint_runway

\* line 64: the call is suppressed by the runway
below_runway(iteration) == iteration < checkpoint_runway

\* line 66 without the test of the flag: the gate is opened again by every call
gate_opens_every_call(iteration) == iteration >= checkpoint_runway

\* line 66: this call opens the gate
gate_opens(iteration) == ~checkpoint_condition_met /\ iteration >= checkpoint_runway

\* lines 82-84: some key of metric_dict is tracked
has_tracked_metric(metric_dict) ==
    (DOMAIN checkpoint_task_metrics) \cap (DOMAIN metric_dict) # {}

\* lines 86-91 with the loop left after its first pass: one metric's file is copied
copy_targets_first(new_best_metrics) ==
    IF new_best_metrics = {} THEN {}
    ELSE { best_model_path(CHOOSE metric \in new_best_metrics : TRUE) }

\* lines 86-91: copyfile(checkpoint_dir, best_model_<metric>) for the metrics that are newly best
copy_targets(new_best_metrics) == { best_model_path(metric) : metric \in new_best_metrics }

\* torch.save / copyfile: the paths of `targets` now hold `payload`
write_files(fs, targets, payload) ==
    [p \in DOMAIN fs \cup targets |-> IF p \in targets THEN payload ELSE fs[p]]

checkpoint(iteration, model, metric_dict) ==
    /\ phase = "ready"
    /\ calls < MaxCalls
    /\ calls' = calls + 1
    /\ supplied' = Supply(iteration, metric_dict)
    /\ IF below_runway(iteration)
       THEN /\ last' = [Call("checkpoint") EXCEPT !.iteration = iteration, !.model = model,
                                                  !.metric_dict = metric_dict]
            /\ UNCHANGED <<checkpoint_condition_met, notices, files, best_metric_dict,
                           best_payload>>
       ELSE LET state_dict == collect_state_dict(iteration, model, metric_dict)
                saved == {checkpoint_path(iteration)}
                evaluated == has_tracked_metric(metric_dict)
                result == is_new_best_result(metric_dict)
                new_best_metrics == IF evaluated THEN result.best_metric ELSE {}
                copied == copy_targets(new_best_metrics)
            IN  /\ checkpoint_condition_met' =
                       IF gate_opens(iteration) THEN TRUE ELSE checkpoint_condition_met
                /\ notices' = IF gate_opens(iteration) THEN notices + 1 ELSE notices
                /\ files' = write_files(write_files(files, saved, state_dict), copied, state_dict)
                /\ best_metric_dict' =
                       IF evaluated THEN result.best_metric_dict ELSE best_metric_dict
                /\ best_payload' =
                       IF NewlyBest(primary_metric, metric_dict, best_metric_dict)
                       THEN [set |-> TRUE, model |-> model]
                       ELSE best_payload
                /\ last' = [Call("checkpoint") EXCEPT !.iteration = iteration, !.model = model,
                                                      !.metric_dict = metric_dict,
                                                      !.new_best = new_best_metrics,
                                                      !.written = saved \cup copied]
    /\ UNCHANGED <<phase, config, manager, dir_exists>>

(***************************************************************************)
(* Checkpointer.is_new_best called by itself                               *)
(***************************************************************************)
is_new_best(metric_dict) ==
    /\ phase = "ready"
    /\ calls < MaxCalls
    /\ calls' = calls + 1
    /\ LET result == is_new_best_result(metric_dict)
       IN  /\ best_metric_dict' = result.best_metric_dict
           /\ last' = [Call("is_new_best") EXCEPT !.metric_dict = metric_dict,
                                                  !.new_best = result.best_metric]
    /\ UNCHANGED <<phase, config, manager, checkpoint_condition_met, dir_exists, files,
                   notices, supplied, best_payload>>

(***************************************************************************)
(* Checkpointer.clear                                                      *)
(***************************************************************************)
\* line 125 with the pattern "*.pth": every file of the directory is removed
clear_targets_all(fs) == DOMAIN fs

\* lines 125-127: the files clear() removes
clear_targets(fs) == glob_checkpoints(fs)

clear ==
    /\ phase = "ready"
    /\ LET file_list == IF checkpoint_clear THEN clear_targets(files) ELSE {}
       IN  /\ files' = [p \in (DOMAIN files) \ file_list |-> files[p]]
           /\ last' = [Call("clear") EXCEPT !.removed = file_list]
    /\ UNCHANGED <<phase, config, manager, checkpoint_condition_met, best_metric_dict,
                   dir_exists, notices, supplied, best_payload, calls>>

(***************************************************************************)
(* Checkpointer.load_best_model                                            *)
(***************************************************************************)
\* line 146 testing the best-model file instead of the record
has_best_model_file == best_model_path(primary_metric) \in DOMAIN files

\* line 146: there is a best record for the primary metric
has_best_model == primary_metric \in DOMAIN best_metric_dict

\* lines 156-157: model.name and the parameters are taken from the loaded payload
restore(model, loaded) ==
    [name |-> loaded.model.name, module_pool |-> loaded.model.module_pool]

\* lines 152-157 with the best-model file consumed by the load: it is removed
\* once its payload has been restored
load_best_model_consuming(model) ==
    /\ phase = "ready"
    /\ IF ~has_best_model
       THEN /\ last' = [Call("load_best_model") EXCEPT !.model = model, !.returned = model]
            /\ files' = files
       ELSE LET best_model_path_ == best_model_path(primary_metric)
            IN  IF best_model_path_ \notin DOMAIN files
                THEN /\ last' = [Call("load_best_model") EXCEPT !.model = model,
                                                                !.read = {best_model_path_},
                                                                !.error = "FileNotFoundError"]
                     /\ files' = files
                ELSE /\ last' = [Call("load_best_model") EXCEPT
                                     !.model = model,
                                     !.read = {best_model_path_},
                                     !.returned = restore(model, files[best_model_path_])]
                     /\ files' = [p \in (DOMAIN files) \ {best_model_path_} |-> files[p]]
    /\ UNCHANGED <<phase, config, manager, checkpoint_condition_met, best_metric_dict,
                   dir_exists, notices, supplied, best_payload, calls>>

load_best_model(model) ==
    /\ phase = "ready"
    /\ IF ~has_best_model
       THEN last' = [Call("load_best_model") EXCEPT !.model = model, !.returned = model]
       ELSE LET best_model_path_ == best_model_path(primary_metric)
            IN  IF best_model_path_ \notin DOMAIN files
                THEN last' = [Call("load_best_model") EXCEPT !.model = model,
                                                             !.read = {best_model_path_},
                                                             !.error = "FileNotFoundError"]
                ELSE last' = [Call("load_best_model") EXCEPT
                                  !.model = model,
                                  !.read = {best_model_path_},
                                  !.returned = restore(model, files[best_model_path_])]
    /\ UNCHANGED <<phase, config, manager, checkpoint_condition_met, best_metric_dict,
                   dir_exists, files, notices, supplied, best_payload, calls>>

(***************************************************************************)
(* I/O failures: torch.save, shutil.copyfile or os.remove raises OSError.  *)
(* No handler catches it: the call ends at the statement that raised.      *)
(***************************************************************************)
\* The content of a file whose write was interrupted after the file was opened.
Truncated == [iteration |-> -1, model |-> NoModel, metric_dict |-> EmptyDict]

\* The path is left as it was, or holds a truncated file.
interrupted_write(fs, path, partial) ==
    IF partial THEN write_files(fs, {path}, Truncated) ELSE fs

\* lines 72-91 run to the end: the files and the record they leave.
checkpoint_completed(iteration, model, metric_dict) ==
    LET state_dict == collect_state_dict(iteration, model, metric_dict)
        evaluated == has_tracked_metric(metric_dict)
        result == is_new_best_result(metric_dict)
        new_best_metrics == IF evaluated THEN result.best_metric ELSE {}
    IN  [ files |-> write_files(write_files(files, {checkpoint_path(iteration)}, state_dict),
                                copy_targets(new_best_metrics), state_dict),
          best_metric_dict |-> IF evaluated THEN result.best_metric_dict
                               ELSE best_metric_dict ]

\* checkpoint with torch.save raising at line 76: the gate has been opened
\* (lines 66-70), nothing is evaluated or copied.
checkpoint_save_fails(iteration, model, metric_dict, partial) ==
    /\ phase = "ready"
    /\ calls < MaxCalls
    /\ ~below_runway(iteration)
    /\ calls' = calls + 1
    /\ supplied' = Supply(iteration, metric_dict)
    /\ checkpoint_condition_met' =
           IF gate_opens(iteration) THEN TRUE ELSE checkpoint_condition_met
    /\ notices' = IF gate_opens(iteration) THEN notices + 1 ELSE notices
    /\ files' = interrupted_write(files, checkpoint_path(iteration), partial)
    /\ last' = [Call("checkpoint") EXCEPT
                   !.iteration = iteration, !.model = model, !.metric_dict = metric_dict,
                   !.error = "OSError",
                   !.failed = {checkpoint_path(iteration)},
                   !.completed = checkpoint_completed(iteration, model, metric_dict)]
    /\ UNCHANGED <<phase, config, manager, dir_exists, best_metric_dict, best_payload>>

\* checkpoint with copyfile raising in the loop of lines 86-91: the snapshot
\* is saved and is_new_best (line 85) has updated the record for every newly
\* best metric; the metrics of `done` were copied before `metric`, whose copy
\* raised.
checkpoint_copy_fails(iteration, model, metric_dict, done, metric, partial) ==
    /\ phase = "ready"
    /\ calls < MaxCalls
    /\ ~below_runway(iteration)
    /\ has_tracked_metric(metric_dict)
    /\ LET state_dict == collect_state_dict(iteration, model, metric_dict)
           saved == {checkpoint_path(iteration)}
           result == is_new_best_result(metric_dict)
           copied == copy_targets(done)
       IN  /\ metric \in result.best_metric
           /\ done \subseteq result.best_metric \ {metric}
           /\ files' = interrupted_write(
                           write_files(write_files(files, saved, state_dict), copied, state_dict),
                           best_model_path(metric), partial)
           /\ best_metric_dict' = result.best_metric_dict
           /\ last' = [Call("checkpoint") EXCEPT
                          !.iteration = iteration, !.model = model,
                          !.metric_dict = metric_dict,
                          !.new_best = result.best_metric,
                          !.written = saved \cup copied,
                          !.error = "OSError",
                          !.failed = {best_model_path(metric)},
                          !.completed = checkpoint_completed(iteration, model, metric_dict)]
    /\ calls' = calls + 1
    /\ supplied' = Supply(iteration, metric_dict)
    /\ checkpoint_condition_met' =
           IF gate_opens(iteration) THEN TRUE ELSE checkpoint_condition_met
    /\ notices' = IF gate_opens(iteration) THEN notices + 1 ELSE notices
    /\ best_payload' =
           IF NewlyBest(primary_metric, metric_dict, best_metric_dict)
           THEN [set |-> TRUE, model |-> model]
           ELSE best_payload
    /\ UNCHANGED <<phase, config, manager, dir_exists>>

\* clear with os.remove raising at line 127 for `file`: the files of `done`
\* were removed before it, the loop ends there.
clear_fails(done, file) ==
    /\ phase = "ready"
    /\ checkpoint_clear
    /\ file \in clear_targets(files)
    /\ done \subseteq clear_targets(files) \ {file}
    /\ files' = [p \in (DOMAIN files) \ done |-> files[p]]
    /\ last' = [Call("clear") EXCEPT !.removed = done, !.failed = {file},
                                     !.error = "OSError"]
    /\ UNCHANGED <<phase, config, manager, checkpoint_condition_met, best_metric_dict,
                   dir_exists, notices, supplied, best_payload, calls>>

(***************************************************************************)
(* Specifications.                                                         *)
(***************************************************************************)
Construct == \E cfg \in Configs : init(cfg)

Checkpoint ==
    \E iteration \in Iterations, model \in Models, metric_dict \in MetricDicts :
        checkpoint(iteration, model, metric_dict)

Clear == clear

LoadBestModel == \E model \in Models : load_best_model(model)

IsNewBest == \E metric_dict \in AllMetricDicts : is_new_best(metric_dict)

\* The manager as the training loop uses it: checkpoint, clear, load_best_model.
Next == Construct \/ Checkpoint \/ Clear \/ LoadBestModel

Spec == Init /\ [][Next]_vars

\* The best-tracking evaluation on its own: is_new_best called directly.
NextBest == Construct \/ IsNewBest

SpecBest == Init /\ [][NextBest]_vars

\* Every operation of the manager: the training loop's calls, and is_new_best
\* called directly between them.
EvaluateBest == \E metric_dict \in MetricDicts : is_new_best(metric_dict)

NextAll == Construct \/ Checkpoint \/ EvaluateBest \/ Clear \/ LoadBestModel

SpecAll == Init /\ [][NextAll]_vars

\* The manager on a file system whose writes, copies and removals can fail.
\* The calls snapshot one model and report the primary metric, alone or with
\* every other metric.
ReportedDicts == { d \in MetricDicts : N_ab \in DOMAIN d }

TrainedModel == CHOOSE model \in Models : model.name = "A"

Save ==
    \E iteration \in Iterations, metric_dict \in ReportedDicts :
        checkpoint(iteration, TrainedModel, metric_dict)

SaveFails ==
    \E iteration \in Iterations, metric_dict \in ReportedDicts, partial \in BOOLEAN :
        checkpoint_save_fails(iteration, TrainedModel, metric_dict, partial)

CopyFails ==
    \E iteration \in Iterations, metric_dict \in ReportedDicts, partial \in BOOLEAN :
        \E metric \in DOMAIN metric_dict, done \in SUBSET DOMAIN metric_dict :
            checkpoint_copy_fails(iteration, TrainedModel, metric_dict, done, metric, partial)

ClearFails ==
    \E file \in DOMAIN files, done \in SUBSET glob_checkpoints(files) :
        clear_fails(done, file)

NextIO == Construct \/ Save \/ SaveFails \/ CopyFails \/ Clear \/ ClearFails

SpecIO == Init /\ [][NextIO]_vars

(***************************************************************************)
(* Properties.                                                             *)
(***************************************************************************)
Max(S) == CHOOSE x \in S : \A y \in S : y <= x
Min(S) == CHOOSE x \in S : \A y \in S : x <= y

IsCheckpointFile(p) == p[1] = "checkpoint_"
IsBestModelFile(p) == p[1] = "best_model_"

\* The step is a call of checkpoint with an iteration at or after the runway.
CheckpointTaken == last'.op = "checkpoint" /\ last'.iteration >= checkpoint_runway

\* C1: a call checkpoint(i, ...) with i < checkpoint_runway, whether the gate is
\* open or closed, writes and copies no file and leaves best_metric_dict and the
\* gate flag as they were.
C1_BelowRunwayNoEffect ==
    [][ (last'.op = "checkpoint" /\ last'.iteration < checkpoint_runway)
        => /\ last'.written = {}
           /\ files' = files
           /\ best_metric_dict' = best_metric_dict
           /\ checkpoint_condition_met' = checkpoint_condition_met ]_vars

\* A call below the runway was made after the gate had opened and files and
\* records existed.
C1_Witness ==
    /\ last.op = "checkpoint"
    /\ last.iteration < checkpoint_runway
    /\ checkpoint_condition_met
    /\ files # EmptyDict
    /\ best_metric_dict # EmptyDict

\* C2: after any sequence of checkpoint calls, for every tracked metric m,
\* best_metric_dict[m] is the maximum (mode max) or minimum (mode min) of the
\* values supplied for m by calls at or after the runway, and m has no entry
\* exactly when no such call supplied a value for m.
C2_BestIsExtremum ==
    phase = "ready" =>
        \A m \in DOMAIN checkpoint_task_metrics :
            /\ (m \notin DOMAIN best_metric_dict) <=> (supplied[m] = {})
            /\ m \in DOMAIN best_metric_dict =>
                   best_metric_dict[m] =
                       IF checkpoint_task_metrics[m] = MAX
                       THEN Max(supplied[m]) ELSE Min(supplied[m])

\* A max metric and a min metric have each been supplied two different values,
\* and a third name was never recorded.
C2_Witness ==
    /\ phase = "ready"
    /\ \E m \in DOMAIN best_metric_dict :
           checkpoint_task_metrics[m] = MAX /\ Cardinality(supplied[m]) = 2
    /\ \E m \in DOMAIN best_metric_dict :
           checkpoint_task_metrics[m] = MIN /\ Cardinality(supplied[m]) = 2

\* C3: load_best_model, after at least one checkpoint that was newly best for
\* the primary metric, returns the name and parameters of the payload written by
\* the most recent checkpoint call in which the primary metric was newly best,
\* whatever checkpoint and clear calls happened in between.
C3_LoadRestoresPrimaryBest ==
    [][ (last'.op = "load_best_model" /\ best_payload.set)
        => /\ last'.error = "none"
           /\ last'.returned = best_payload.model ]_vars

\* C4: in a checkpoint call at or after the runway, best_model_<sanitized m> is
\* written with the snapshot just saved if and only if the tracked metric m is
\* newly best in this call; otherwise the file is left as it was.
C4_BestFileWrittenIffNewlyBest ==
    [][ CheckpointTaken =>
          \A m \in DOMAIN checkpoint_task_metrics :
              LET path == best_model_path(m)
                  snapshot == [ iteration |-> last'.iteration, model |-> last'.model,
                                metric_dict |-> last'.metric_dict ]
              IN  IF NewlyBest(m, last'.metric_dict, best_metric_dict)
                  THEN /\ path \in last'.written
                       /\ path \in DOMAIN files'
                       /\ files'[path] = snapshot
                  ELSE /\ path \notin last'.written
                       /\ (path \in DOMAIN files') = (path \in DOMAIN files)
                       /\ path \in DOMAIN files => files'[path] = files[path] ]_vars

\* C5: the gate flag goes from closed to open exactly once, at the first
\* checkpoint call with iteration >= checkpoint_runway, never returns to
\* closed, and the "checkpointing started" notice is emitted exactly once.
C5_GateOpensOnce ==
    [][ /\ checkpoint_condition_met => checkpoint_condition_met'
        /\ CheckpointTaken => checkpoint_condition_met'
        /\ (~checkpoint_condition_met /\ checkpoint_condition_met') => CheckpointTaken
        /\ notices' = notices + (IF ~checkpoint_condition_met /\ checkpoint_condition_met'
                                 THEN 1 ELSE 0)
        /\ notices' = (IF checkpoint_condition_met' THEN 1 ELSE 0) ]_vars

\* A second checkpoint at or after the runway was taken with the gate already open.
C5_Witness ==
    /\ last.op = "checkpoint"
    /\ last.iteration >= checkpoint_runway
    /\ calls = 2
    /\ Cardinality({p \in DOMAIN files : IsCheckpointFile(p)}) = 2
    /\ checkpoint_condition_met
    /\ notices = 1

\* C6: is_new_best(metric_dict) returns exactly the names that are tracked, in
\* metric_dict, and have no record or a strictly better value than the record;
\* a value equal to the record is not returned and leaves the record as it was;
\* the record takes the incoming value for exactly the returned names.
C6_IsNewBestContract ==
    [][ last'.op = "is_new_best" =>
          LET metric_dict == last'.metric_dict
              expected == { m \in MetricNames : NewlyBest(m, metric_dict, best_metric_dict) }
          IN  /\ last'.new_best = expected
              /\ DOMAIN best_metric_dict' = DOMAIN best_metric_dict \cup expected
              /\ \A m \in DOMAIN best_metric_dict' :
                     best_metric_dict'[m] =
                         IF m \in expected THEN metric_dict[m] ELSE best_metric_dict[m]
              /\ \A m \in DOMAIN metric_dict \cap DOMAIN best_metric_dict :
                     metric_dict[m] = best_metric_dict[m] =>
                         /\ m \notin last'.new_best
                         /\ best_metric_dict'[m] = best_metric_dict[m] ]_vars

\* A direct call returned a newly best name while another tracked name tied its
\* record and an untracked name was in the dict.
C6_Witness ==
    /\ last.op = "is_new_best"
    /\ calls = 2
    /\ last.new_best # {}
    /\ \E m \in DOMAIN last.metric_dict \cap DOMAIN best_metric_dict :
           m \notin last.new_best /\ last.metric_dict[m] = best_metric_dict[m]
    /\ \E m \in DOMAIN last.metric_dict : m \notin DOMAIN checkpoint_task_metrics

\* C7: every key of best_metric_dict is a key of checkpoint_task_metrics.
C7_RecordKeysAreTracked ==
    DOMAIN best_metric_dict \subseteq DOMAIN checkpoint_task_metrics

\* A value was supplied at or after the runway for an untracked name, in a call
\* that recorded a tracked one.
C7_Witness ==
    /\ phase = "ready"
    /\ best_metric_dict # EmptyDict
    /\ \E m \in MetricNames : m \notin DOMAIN checkpoint_task_metrics /\ supplied[m] # {}
    /\ last.op = "checkpoint"
    /\ last.new_best # {}
    /\ DOMAIN last.metric_dict \ DOMAIN checkpoint_task_metrics # {}

\* C8: clear() with checkpoint_clear unset changes no file; with it set it
\* removes every checkpoint_<iteration> file and leaves every best_model_* file
\* present with unchanged content.
C8_ClearRemovesTransientOnly ==
    [][ last'.op = "clear" =>
          IF checkpoint_clear
          THEN /\ \A p \in DOMAIN files' : ~IsCheckpointFile(p)
               /\ DOMAIN files' \subseteq DOMAIN files
               /\ \A p \in DOMAIN files :
                      IsBestModelFile(p) => p \in DOMAIN files' /\ files'[p] = files[p]
          ELSE files' = files ]_vars

\* clear() with the flag set removed two transient files and a best-model file is kept.
C8_Witness ==
    /\ last.op = "clear"
    /\ checkpoint_clear
    /\ Cardinality(last.removed) = 2
    /\ \E p \in DOMAIN files : IsBestModelFile(p)

\* C9: load_best_model called when the primary metric has no entry in
\* best_metric_dict returns the input model unchanged, reads no file and raises
\* no error.
C9_LoadWithoutBestReturnsInput ==
    (last.op = "load_best_model" /\ primary_metric \notin DOMAIN best_metric_dict)
    => /\ last.returned = last.model
       /\ last.read = {}
       /\ last.error = "none"

\* load_best_model ran with no record for the primary metric although
\* checkpoints were taken and a file exists at the primary metric's best-model path.
C9_Witness ==
    /\ last.op = "load_best_model"
    /\ primary_metric \notin DOMAIN best_metric_dict
    /\ best_metric_dict # EmptyDict
    /\ best_model_path(primary_metric) \in DOMAIN files

\* A descriptor is well formed: exactly one colon, followed by "min" or "max".
WellFormed(descriptor) ==
    LET colons == { i \in 1..Len(descriptor) : descriptor[i] = ":" }
    IN  /\ Cardinality(colons) = 1
        /\ \E i \in colons : SubSeq(descriptor, i + 1, Len(descriptor)) \in {MIN, MAX}

\* The descriptors of a config: the primary one, then the secondary list.
Descriptors(cfg) ==
    <<cfg.checkpoint_metric>> \o
        (IF cfg.checkpoint_task_metrics.none THEN <<>> ELSE cfg.checkpoint_task_metrics.list)

\* The config's descriptors, and whether one of them is malformed.
Malformed(cfg) == \E i \in 1..Len(Descriptors(cfg)) : ~WellFormed(Descriptors(cfg)[i])

\* C10 as stated: construction raises, and leaves no manager on which checkpoint
\* could run, whenever the primary or any secondary descriptor does not split
\* into exactly two colon-delimited parts or has a mode other than "min" or
\* "max"; it succeeds for every list of well-formed descriptors; a None
\* secondary list yields no secondary metrics.
C10_SucceedsForEveryWellFormedList ==
    [][ /\ phase # "failed"
        /\ last'.op = "__init__" =>
              /\ Malformed(config') => phase' = "failed" /\ last'.error = "ValueError"
              /\ ~Malformed(config') => phase' = "ready" /\ last'.error = "none"
              /\ (phase' = "ready" /\ config'.checkpoint_task_metrics.none)
                 => DOMAIN checkpoint_task_metrics' = DOMAIN checkpoint_metric' ]_vars

\* C10 (amended): as above, but construction succeeds for well-formed
\* descriptors only when evaluation_freq * checkpoint_factor > 0; with
\* well-formed descriptors and a non-positive product it raises as well.
C10_ConstructionValidatesDescriptors ==
    [][ /\ phase # "failed"
        /\ last'.op = "__init__" =>
              LET freq == config'.evaluation_freq * config'.checkpoint_factor
              IN  /\ Malformed(config') => phase' = "failed" /\ last'.error = "ValueError"
                  /\ (~Malformed(config') /\ freq > 0)
                     => phase' = "ready" /\ last'.error = "none"
                  /\ (~Malformed(config') /\ freq <= 0)
                     => phase' = "failed" /\ last'.error = "ValueError"
                  /\ (phase' = "ready" /\ config'.checkpoint_task_metrics.none)
                     => DOMAIN checkpoint_task_metrics' = DOMAIN checkpoint_metric' ]_vars

\* Construction failed on the second entry of the secondary list only.
C10_Witness ==
    /\ phase = "failed"
    /\ WellFormed(config.checkpoint_metric)
    /\ ~config.checkpoint_task_metrics.none
    /\ Len(config.checkpoint_task_metrics.list) = 2
    /\ WellFormed(config.checkpoint_task_metrics.list[1])
    /\ ~WellFormed(config.checkpoint_task_metrics.list[2])
    /\ config.evaluation_freq * config.checkpoint_factor > 0

\* C11 as stated: construction fails with a configuration error exactly when
\* evaluation_freq * checkpoint_factor <= 0, and every constructed manager has
\* checkpoint_freq > 0.
C11_FailsExactlyOnNonPositiveFreq ==
    [][ /\ last'.op = "__init__" =>
              LET freq == config'.evaluation_freq * config'.checkpoint_factor
              IN  (phase' = "failed" /\ last'.error = "ValueError") <=> freq <= 0
        /\ phase' = "ready" => checkpoint_freq' > 0 ]_vars

\* C11 (amended): when every descriptor is well formed, construction fails
\* with a configuration error exactly when evaluation_freq * checkpoint_factor
\* <= 0 (a malformed descriptor makes it fail whatever the product); every
\* constructed manager has checkpoint_freq > 0, the product it was given.
C11_FreqValidated ==
    [][ /\ last'.op = "__init__" =>
              LET freq == config'.evaluation_freq * config'.checkpoint_factor
              IN  /\ ~Malformed(config')
                     => ((phase' = "failed" /\ last'.error = "ValueError") <=> freq <= 0)
                  /\ phase' = "ready" => checkpoint_freq' = freq
        /\ phase' = "ready" => checkpoint_freq' > 0 ]_vars

\* Construction failed on a product of exactly zero, all descriptors well formed.
C11_Witness ==
    /\ phase = "failed"
    /\ ~Malformed(config)
    /\ config.evaluation_freq * config.checkpoint_factor = 0

\* The name and the mode of a well-formed descriptor: the text before and
\* after its colon.
NameOf(descriptor) ==
    LET i == CHOOSE j \in 1..Len(descriptor) : descriptor[j] = ":"
    IN  SubSeq(descriptor, 1, i - 1)

ModeOf(descriptor) ==
    LET i == CHOOSE j \in 1..Len(descriptor) : descriptor[j] = ":"
    IN  SubSeq(descriptor, i + 1, Len(descriptor))

\* C12: after construction the primary metric name is a key of the tracked
\* map, and the tracked map holds the primary descriptor's mode for it, also
\* when a secondary descriptor gives the same name a different mode.
C12_PrimaryModeWins ==
    phase = "ready"
    => /\ NameOf(config.checkpoint_metric) \in DOMAIN checkpoint_task_metrics
       /\ checkpoint_task_metrics[NameOf(config.checkpoint_metric)]
              = ModeOf(config.checkpoint_metric)

\* A manager was constructed from a secondary list that names the primary
\* metric with another mode.
C12_Witness ==
    /\ phase = "ready"
    /\ ~config.checkpoint_task_metrics.none
    /\ \E i \in 1..Len(config.checkpoint_task_metrics.list) :
          /\ NameOf(config.checkpoint_task_metrics.list[i]) = NameOf(config.checkpoint_metric)
          /\ ModeOf(config.checkpoint_task_metrics.list[i]) # ModeOf(config.checkpoint_metric)

\* C13: across any sequence of checkpoint, is_new_best, clear and
\* load_best_model calls, best_metric_dict never loses a key, a recorded value
\* changes only to a strictly better one per the metric's mode (larger for
\* max, smaller for min), and only the best-tracking evaluation (inside
\* checkpoint or called directly) changes the record: clear and
\* load_best_model leave it as it was.
C13_RecordOnlyImproves ==
    [][ /\ DOMAIN best_metric_dict \subseteq DOMAIN best_metric_dict'
        /\ \A m \in DOMAIN best_metric_dict :
              \/ best_metric_dict'[m] = best_metric_dict[m]
              \/ /\ checkpoint_task_metrics[m] = MAX
                 /\ best_metric_dict'[m] > best_metric_dict[m]
              \/ /\ checkpoint_task_metrics[m] = MIN
                 /\ best_metric_dict'[m] < best_metric_dict[m]
        /\ best_metric_dict' # best_metric_dict
           => last'.op \in {"checkpoint", "is_new_best"}
        /\ last'.op \in {"clear", "load_best_model"}
           => best_metric_dict' = best_metric_dict ]_vars

\* A direct is_new_best call replaced the value a checkpoint had recorded by
\* one no checkpoint supplied, while a checkpoint file is on disk.
C13_Witness ==
    /\ last.op = "is_new_best"
    /\ files # EmptyDict
    /\ \E m \in last.new_best :
          /\ supplied[m] # {}
          /\ best_metric_dict[m] \notin supplied[m]

\* The step wrote exactly one transient file, checkpoint_<iteration>, and it
\* holds the iteration, the model's name and parameters and the metric_dict of
\* the call.
TransientWritten ==
    LET p == <<"checkpoint_", <<last'.iteration>> >>
    IN  /\ { q \in last'.written : IsCheckpointFile(q) } = {p}
        /\ p \in DOMAIN files'
        /\ files'[p] = [ iteration |-> last'.iteration,
                         model |-> [ name |-> last'.model.name,
                                     module_pool |-> last'.model.module_pool ],
                         metric_dict |-> last'.metric_dict ]

\* C14 as stated: once the runway gate is open, every checkpoint call writes
\* one transient file checkpoint_<iteration> holding the record (iteration,
\* model name and parameters, metric_dict) of that call.
C14_EveryCallWritesOnceGateOpen ==
    [][ (last'.op = "checkpoint" /\ checkpoint_condition_met') => TransientWritten ]_vars

\* C14 (amended): every checkpoint call with iteration >= checkpoint_runway
\* that completes leaves the gate open and writes one transient file
\* checkpoint_<iteration> holding the record of that call; a call below the
\* runway writes nothing, gate open or not.
C14_CallAtRunwayWrites ==
    [][ /\ CheckpointTaken => checkpoint_condition_met' /\ TransientWritten
        /\ (last'.op = "checkpoint" /\ ~CheckpointTaken) => last'.written = {} ]_vars

\* The second of two calls at or after the runway wrote its own transient
\* file beside the first call's.
C14_Witness ==
    /\ last.op = "checkpoint"
    /\ last.iteration >= checkpoint_runway
    /\ checkpoint_path(last.iteration) \in DOMAIN files
    /\ files[checkpoint_path(last.iteration)].metric_dict = last.metric_dict
    /\ Cardinality(glob_checkpoints(files)) = 2

\* The step is a checkpoint call that completed right after a checkpoint call
\* with the same arguments that raised.
Retried ==
    /\ last.op = "checkpoint"
    /\ last.error # "none"
    /\ last'.op = "checkpoint"
    /\ last'.error = "none"
    /\ last'.iteration = last.iteration
    /\ last'.model = last.model
    /\ last'.metric_dict = last.metric_dict

\* C15: a checkpoint call that fails with a write or copy failure can be
\* retried: after the failed call and a successful retry with the same
\* arguments, best_metric_dict and the transient and best-model files are what
\* a single successful call from the same starting state leaves.
C15_RetryEqualsSingleCall ==
    [][ Retried => /\ best_metric_dict' = last.completed.best_metric_dict
                   /\ files' = last.completed.files ]_vars

\* C16 as stated: a checkpoint call, completed or interrupted during its
\* snapshot write, leaves every transient checkpoint file written by an
\* earlier checkpoint call untouched.
C16_EarlierTransientFilesUntouched ==
    [][ last'.op = "checkpoint"
        => \A p \in DOMAIN files :
              IsCheckpointFile(p) => p \in DOMAIN files' /\ files'[p] = files[p] ]_vars

\* C16 (amended): a checkpoint call, completed or interrupted during its
\* snapshot write or a copy, leaves every transient checkpoint file of another
\* iteration untouched: the file name is fresh per iteration, not per call.
C16_OtherIterationsUntouched ==
    [][ last'.op = "checkpoint"
        => \A p \in DOMAIN files :
              (IsCheckpointFile(p) /\ p[2] # <<last'.iteration>>)
              => p \in DOMAIN files' /\ files'[p] = files[p] ]_vars

\* A snapshot write was interrupted and left a truncated file, beside the
\* intact transient file of another iteration.
C16_Witness ==
    /\ last.op = "checkpoint"
    /\ last.error = "OSError"
    /\ last.failed = { <<"checkpoint_", <<last.iteration>> >> }
    /\ <<"checkpoint_", <<last.iteration>> >> \in DOMAIN files
    /\ files[<<"checkpoint_", <<last.iteration>> >>] = Truncated
    /\ \E p \in DOMAIN files :
          /\ IsCheckpointFile(p)
          /\ p[2] # <<last.iteration>>
          /\ files[p] # Truncated

\* C17: in clear() with checkpoint_clear set, a failure to delete one
\* transient file does not stop the operation: the deletion of every other
\* matching file is still attempted, so after clear() only the files whose own
\* deletion failed remain.
C17_ClearIsBestEffort ==
    [][ (last'.op = "clear" /\ checkpoint_clear)
        => \A p \in DOMAIN files' : IsCheckpointFile(p) => p \in last'.failed ]_vars

\* No two tracked metric names become equal after replacing "/" with "_".
NoCollision ==
    \A m1, m2 \in DOMAIN checkpoint_task_metrics :
        replace(m1, "/", "_") = replace(m2, "/", "_") => m1 = m2

\* C18: provided no I/O operation fails, is_new_best is only invoked through
\* checkpoint and no two tracked names collide after sanitizing, in every
\* state reached by checkpoint, clear and load_best_model calls each metric m
\* of best_metric_dict has its file best_model_<sanitized m>, and the
\* metric_dict stored in that file has metric_dict[m] = best_metric_dict[m].
C18_BestFileHoldsRecord ==
    (phase = "ready" /\ NoCollision)
    => \A m \in DOMAIN best_metric_dict :
          /\ best_model_path(m) \in DOMAIN files
          /\ m \in DOMAIN files[best_model_path(m)].metric_dict
          /\ files[best_model_path(m)].metric_dict[m] = best_metric_dict[m]

\* Two metrics with distinct file names have records set by different
\* checkpoint calls, and clear() has just removed the transient files.
C18_Witness ==
    /\ phase = "ready"
    /\ NoCollision
    /\ last.op = "clear"
    /\ last.removed # {}
    /\ \E m1, m2 \in DOMAIN best_metric_dict :
          /\ best_model_path(m1) \in DOMAIN files
          /\ best_model_path(m2) \in DOMAIN files
          /\ files[best_model_path(m1)] # files[best_model_path(m2)]

\* C19: load_best_model changes nothing of the manager: best_metric_dict, the
\* runway gate flag, the configuration fields and all files of the checkpoint
\* directory are the same after the call as before, whether or not a best
\* record exists, so a second call right after the first restores the same
\* name and parameters (and, with no record, returns its own input again).
C19_LoadChangesNothing ==
    [][ last'.op = "load_best_model"
        => /\ best_metric_dict' = best_metric_dict
           /\ checkpoint_condition_met' = checkpoint_condition_met
           /\ files' = files
           /\ manager' = manager
           /\ (/\ last.op = "load_best_model"
               /\ \/ primary_metric \in DOMAIN best_metric_dict
                  \/ last'.model = last.model)
              => /\ last'.returned = last.returned
                 /\ last'.error = last.error ]_vars

\* load_best_model restored, from the best-model file, a name and parameters
\* other than those of the model it was handed.
C19_Witness ==
    /\ last.op = "load_best_model"
    /\ last.error = "none"
    /\ last.read # {}
    /\ last.returned # last.model
    /\ primary_metric \in DOMAIN best_metric_dict

====
